---- MODULE Spec2Model ----
(***************************************************************************)
(* A model of degski/rooted_tree: the rooted tree over an append-only      *)
(* indexed node store, in its sequential and its concurrent mode.          *)
(*                                                                         *)
(* src/include/rooted_tree.hpp holds three revisions of the header, one    *)
(* after the other:                                                        *)
(*   revision A (lines    1- 493)  rooted_tree / concurrent_rooted_tree    *)
(*   revision B (lines  496-1094)  rooted_tree_base with hook<bool>        *)
(*   revision C (lines 1097-1861)  rooted_tree_base with insert_impl,      *)
(*                                 the revision src/main.cpp is built on   *)
(* src/unnamed/part_004 is an older rooted_tree (NodeID, rt_hook).         *)
(*                                                                         *)
(* A node id is an index into the store; 0 is `invalid` (the sentinel's    *)
(* slot) and 1 is `root`.  The store is a function from 0..size-1 to node  *)
(* records.                                                                *)
(***************************************************************************)
EXTENDS Integers, Sequences, FiniteSets, TLC

(***************************************************************************)
(* Bounds of the model.                                                    *)
(***************************************************************************)
\* Largest number of slots (sentinel included) a sequential tree grows to.
MaxSeqSlots == 6
\* Number of emplace calls each producer thread makes (n_ - 1 in
\* add_nodes_low_workload).
InsertsPerThread == 2

\* The producer threads of the concurrent-grow scenario.
Threads == {1, 2}

\* Slots of the concurrent tree once every producer has returned: sentinel,
\* root and one slot per emplace call.
ConSlots == 2 + Cardinality(Threads) * InsertsPerThread

VARIABLES
    nodes,      \* the node store: [0..size-1 -> node record]
    last,       \* the last completed sequential call (history)
    rootCalls,  \* number of calls made with parent = invalid (history)
    build,      \* the build: argument evaluation order, assertions on/off
    aborted,    \* TRUE once an assertion has failed (the process is gone)
    pc,         \* concurrent tree: each thread's position in emplace
    pid,        \* concurrent tree: each thread's parent id (pid_)
    cid,        \* concurrent tree: each thread's child id (cid_)
    old,        \* concurrent tree: the value std::exchange returned
    cnt,        \* concurrent tree: emplace calls each thread has completed
    acq,        \* concurrent tree: per parent, children in lock order (history)
    vm,         \* the VM-backed vectors, their host memory and thread data
    cur         \* a cursor over the tree in nodes

vars == <<nodes, last, rootCalls, build, aborted, pc, pid, cid, old, cnt, acq, vm, cur>>
extVars == <<vm, cur>>
seqVars == <<nodes, last, rootCalls, build, aborted>>
conVars == <<pc, pid, cid, old, cnt, acq>>

(***************************************************************************)
(* Node ids and node records.                                              *)
(***************************************************************************)
invalid == 0
root == 1

size(ns) == Cardinality(DOMAIN ns)

\* A slot of an allocator that would not zero its memory: done already reads 1.
RawDoneNode ==
    [up |-> 0, prev |-> 0, tail |-> 0, fan |-> 0, lock |-> 0, done |-> 1, value |-> 0]

\* A slot as tbb::zero_allocator hands it out: every byte zero, so done = 0.
ZeroNode ==
    [up |-> 0, prev |-> 0, tail |-> 0, fan |-> 0, lock |-> 0, done |-> 0, value |-> 0]

\* A constructed node: the hook's member initialisers give up = prev = tail = 0
\* and fan = 0, the spin mutex is free, done = 1 is written last.
Foo(v) ==
    [up |-> 0, prev |-> 0, tail |-> 0, fan |-> 0, lock |-> 0, done |-> 1, value |-> v]

\* nodes.emplace_back / push_back on a std::vector: the new slot's index is the
\* size before the call.
push_back(ns, node) ==
    [i \in 0..size(ns) |-> IF i < size(ns) THEN ns[i] ELSE node]

\* A linking that reads the parent's tail after having stored the child in it.
LinkBrokenPrev(ns, pid_, cnode_, cid_) ==
    LET n1 == [ns EXCEPT ![cnode_].up = pid_]
        n2 == [n1 EXCEPT ![pid_].tail = cid_]
        n3 == [n2 EXCEPT ![cnode_].prev = n2[pid_].tail]
    IN  [n3 EXCEPT ![pid_].fan = @ + 1]

\* A linking that leaves the child's up as constructed.
LinkBrokenUp(ns, pid_, cnode_, cid_) ==
    LET oldtail == ns[pid_].tail
        n2 == [ns EXCEPT ![pid_].tail = cid_]
        n3 == [n2 EXCEPT ![cnode_].prev = oldtail]
    IN  [n3 EXCEPT ![pid_].fan = @ + 1]

\* A linking that also writes into the sibling that was the tail.
LinkTouchesSibling(ns, pid_, cnode_, cid_) ==
    LET n1 == [ns EXCEPT ![cnode_].up = pid_]
        oldtail == n1[pid_].tail
        n2 == [n1 EXCEPT ![pid_].tail = cid_]
        n3 == [n2 EXCEPT ![cnode_].prev = oldtail]
        n4 == [n3 EXCEPT ![oldtail].tail = cid_]
    IN  [n4 EXCEPT ![pid_].fan = @ + 1]

\* The sequential linking of insert_impl ( pid_, cnode_, cid_ ): cnode_ is the
\* slot the reference names, cid_ the id that is stored and returned.
\*     cnode_.up   = pid_;
\*     cnode_.prev = std::exchange ( nodes[ pid_.id ].tail, cid_ );
\*     nodes[ pid_.id ].fan += 1;
\* The assignments are applied in the order the code makes them (cnode_ and
\* pid_ may name the same slot only when the caller passes a wrong reference).
insert_impl_seq(ns, pid_, cnode_, cid_) ==
    LET n1 == [ns EXCEPT ![cnode_].up = pid_]
        oldtail == n1[pid_].tail
        n2 == [n1 EXCEPT ![pid_].tail = cid_]
        n3 == [n2 EXCEPT ![cnode_].prev = oldtail]
    IN  [n3 EXCEPT ![pid_].fan = @ + 1]

(***************************************************************************)
(* Walks.                                                                  *)
(***************************************************************************)
\* The ids met following prev from n until invalid, at most fuel of them; an id
\* outside the store is recorded and ends the walk.
RECURSIVE WalkFrom(_, _, _)
WalkFrom(ns, n, fuel) ==
    IF n = invalid \/ fuel = 0 THEN <<>>
    ELSE IF n \notin DOMAIN ns THEN <<n>>
    ELSE <<n>> \o WalkFrom(ns, ns[n].prev, fuel - 1)

\* The walk p.tail, prev, prev, ... (what out_iterator visits from p).
Walk(ns, p) == WalkFrom(ns, ns[p].tail, size(ns) + 1)

Occurrences(w, n) == Cardinality({i \in 1..Len(w) : w[i] = n})

\* (I2) for one parent p.
SiblingListOK(ns, p) ==
    LET w == Walk(ns, p) IN
    /\ Len(w) <= size(ns)
    /\ Len(w) = ns[p].fan
    /\ \A i \in 1..Len(w) : w[i] \in DOMAIN ns /\ ns[w[i]].up = p

Children(ns, p) == {n \in (DOMAIN ns) \ {invalid} : ns[n].up = p}

(***************************************************************************)
(* The sequential tree.                                                    *)
(***************************************************************************)
NoCall ==
    [op |-> "none", parent |-> 0, ret |-> 0, sizeBefore |-> 0,
     tailBefore |-> 0, fanBefore |-> 0, hadRoot |-> FALSE]

CallRecord(op, ns, p, r) ==
    [op |-> op, parent |-> p, ret |-> r, sizeBefore |-> size(ns),
     tailBefore |-> ns[invalid].tail, fanBefore |-> ns[invalid].fan,
     hadRoot |-> ns[invalid].tail # invalid]

\* rooted_tree_base ( ): the store holds the sentinel alone.
EmptyTree == [i \in {0} |-> Foo(0)]

\* No vector has been constructed and no cursor has been started.
ExtIdle ==
    /\ vm = [variant |-> "none"]
    /\ cur = [kind |-> "none"]

ConIdle ==
    /\ ExtIdle
    /\ pc = [t \in Threads |-> "idle"]
    /\ pid = [t \in Threads |-> 0]
    /\ cid = [t \in Threads |-> 0]
    /\ old = [t \in Threads |-> 0]
    /\ cnt = [t \in Threads |-> 0]
    /\ acq = [n \in 0..(ConSlots - 1) |-> <<>>]

InitSeq ==
    /\ nodes = EmptyTree
    /\ last = NoCall
    /\ rootCalls = 0
    /\ build = [rev |-> "B", order |-> "none", asserts |-> FALSE]
    /\ aborted = FALSE
    /\ ConIdle

\* Revision B, sequential branch of insert ( source_, node_ ) and of
\* emplace ( source_, args_... ):
\*     nid id{ nodes.size ( ) };  nodes.push_back ( node_ );
\*     target.up = source_;  target.prev = std::exchange ( source.tail, id );
\*     source.fan += 1;  return id;
\* There is no check of source_: a call with source_ = invalid on a tree that
\* has a root links a second root.
insert(source_, v) ==
    LET id == size(nodes)
        pushed == push_back(nodes, Foo(v))
    IN  /\ size(nodes) < MaxSeqSlots
        /\ source_ \in DOMAIN nodes
        /\ nodes' = insert_impl_seq(pushed, source_, id, id)
        /\ last' = CallRecord("insert", nodes, source_, id)
        /\ rootCalls' = rootCalls + (IF source_ = invalid THEN 1 ELSE 0)
        /\ UNCHANGED <<build, aborted>>
        /\ UNCHANGED conVars

NextSeq ==
    /\ \E p \in 0..(MaxSeqSlots - 1) : insert(p, size(nodes))
    /\ UNCHANGED extVars

SpecSeq == InitSeq /\ [][NextSeq]_vars

(***************************************************************************)
(* The sequential emplace of revision C and of part_004.                   *)
(***************************************************************************)
\* The builds: revision C leaves the order in which the two arguments
\*     insert_impl ( pid_, nodes.emplace_back ( args_... ), nid{ nodes.size ( ) } )
\* are evaluated to the compiler (function arguments are indeterminately
\* sequenced), and its assertion is compiled in or out (NDEBUG).
Builds ==
    {[rev |-> "C", order |-> o, asserts |-> a] :
        o \in {"size_first", "emplace_first"}, a \in BOOLEAN}
    \cup {[rev |-> "P4", order |-> "emplace_first", asserts |-> FALSE]}

InitEmplace ==
    /\ nodes = EmptyTree
    /\ last = NoCall
    /\ rootCalls = 0
    /\ build \in Builds
    /\ aborted = FALSE
    /\ ConIdle

\* Revision C, sequential branch of emplace ( pid_, args_... ) with the
\* sequential branch of insert_impl: the slot is appended while the arguments
\* are evaluated, the assertion runs afterwards, inside insert_impl.
emplace(pid_, v) ==
    LET pushed == push_back(nodes, Foo(v))
        cnode_ == size(nodes)
        cid_ == IF build.order = "size_first" THEN size(nodes) ELSE size(pushed)
        asserted == invalid # pid_ \/ pushed[invalid].tail = invalid
    IN  /\ build.rev = "C"
        /\ ~aborted
        /\ size(nodes) < MaxSeqSlots
        /\ pid_ \in DOMAIN nodes
        /\ IF build.asserts /\ ~asserted
             THEN /\ nodes' = pushed
                  /\ aborted' = TRUE
                  /\ last' = CallRecord("abort", nodes, pid_, invalid)
             ELSE /\ nodes' = insert_impl_seq(pushed, pid_, cnode_, cid_)
                  /\ aborted' = FALSE
                  /\ last' = CallRecord("emplace", nodes, pid_, cid_)
        /\ rootCalls' = rootCalls + (IF pid_ = invalid THEN 1 ELSE 0)
        /\ UNCHANGED build
        /\ UNCHANGED conVars

\* part_004, rooted_tree::emplace ( source_, args_... ):
\*     Node & target = nodes.emplace_back ( args_... );
\*     NodeID id{ nodes.size ( ) };
\*     target.up = source_;  target.prev = std::exchange ( source.tail, id );
\*     source.size += 1;  return id;
emplace_p004(source_, v) ==
    LET pushed == push_back(nodes, Foo(v))
        target == size(nodes)
        id == size(pushed)
    IN  /\ build.rev = "P4"
        /\ size(nodes) < MaxSeqSlots
        /\ source_ \in DOMAIN nodes
        /\ nodes' = insert_impl_seq(pushed, source_, target, id)
        /\ last' = CallRecord("emplace", nodes, source_, id)
        /\ rootCalls' = rootCalls + (IF source_ = invalid THEN 1 ELSE 0)
        /\ UNCHANGED <<build, aborted>>
        /\ UNCHANGED conVars

NextEmplace ==
    /\ \/ \E p \in 0..(MaxSeqSlots - 1) : emplace(p, size(nodes))
       \/ \E p \in 0..(MaxSeqSlots - 1) : emplace_p004(p, size(nodes))
    /\ UNCHANGED extVars

SpecEmplace == InitEmplace /\ [][NextEmplace]_vars

(***************************************************************************)
(* The concurrent tree of revision C under the producers of src/main.cpp:  *)
(* ConcurrentTree tree ( 1 ), then every thread runs                       *)
(* add_nodes_low_workload ( tree, n_ ).  A spin lock is modelled by the    *)
(* thread that holds it, 0 when free.  Every action is one access to       *)
(* shared memory of emplace / insert_impl.                                 *)
(***************************************************************************)
\* A lock that never excludes anyone.
always_free(ns, n) == TRUE

\* tbb::spin_mutex: the lock can be taken when its flag is clear.
lock_free(ns, n) == ns[n].lock = 0

\* cid = std::distance ( begin ( ), cnode ): the index of the appended slot.
distance(ns) == size(ns)

\* A store of the past-the-end index into the parent's tail.
store_tail_past_end(ns, p, c) == [ns EXCEPT ![p].tail = size(ns)]

\* The store of std::exchange ( nodes[ pid_.id ].tail, cid_ ).
store_tail(ns, p, c) == [ns EXCEPT ![p].tail = c]

\* The assignment to cnode_->prev of the value exchanged out.
store_prev(ns, c, o) == [ns EXCEPT ![c].prev = o]

\* A linking that leaves the parent's fan alone.
keep_fan(ns, p) == ns

\* nodes[ pid_.id ].fan++, made while the parent's lock is held.
fan_inc(ns, p) == [ns EXCEPT ![p].fan = @ + 1]

\* A linking that takes the lock of the new child.
lock_of_child(t) == cid[t]

\* The lock insert_impl takes for the linking: the parent's.
lock_of_link(t) == pid[t]

\* ConcurrentTree tree ( 1 ): grow_by ( 1 ) makes the sentinel, then
\* emplace ( invalid, 1 ) links the root while no other thread exists.
InitCon ==
    /\ nodes = insert_impl_seq(push_back(EmptyTree, Foo(1)), invalid, root, root)
    /\ last = NoCall
    /\ rootCalls = 1
    /\ build = [rev |-> "C", order |-> "none", asserts |-> TRUE]
    /\ aborted = FALSE
    /\ pc = [t \in Threads |-> "idle"]
    /\ pid = [t \in Threads |-> 0]
    /\ cid = [t \in Threads |-> 0]
    /\ old = [t \in Threads |-> 0]
    /\ cnt = [t \in Threads |-> 0]
    /\ acq = [n \in 0..(ConSlots - 1) |-> IF n = invalid THEN <<root>> ELSE <<>>]
    /\ ExtIdle

\* add_nodes_low_workload: the parent is drawn from 1 .. nodes.size ( ) - 1;
\* size ( ) of the concurrent vector counts slots still under construction.
call(t) ==
    /\ pc[t] = "idle"
    /\ cnt[t] < InsertsPerThread
    /\ \E p \in 1..(size(nodes) - 1) : pid' = [pid EXCEPT ![t] = p]
    /\ pc' = [pc EXCEPT ![t] = "lock_tree"]
    /\ UNCHANGED <<nodes, cid, old, cnt, acq, last, rootCalls, build, aborted>>

\* emplace: scoped_lock lock ( nodes[ invalid.id ].lock );
lock_tree(t) ==
    /\ pc[t] = "lock_tree"
    /\ lock_free(nodes, invalid)
    /\ nodes' = [nodes EXCEPT ![invalid].lock = t]
    /\ pc' = [pc EXCEPT ![t] = "alloc"]
    /\ UNCHANGED <<pid, cid, old, cnt, acq, last, rootCalls, build, aborted>>

\* nodes.emplace_back: the vector grows by one zero-filled slot ...
alloc(t) ==
    /\ pc[t] = "alloc"
    /\ cid' = [cid EXCEPT ![t] = distance(nodes)]
    /\ nodes' = push_back(nodes, ZeroNode)
    /\ pc' = [pc EXCEPT ![t] = "construct"]
    /\ UNCHANGED <<pid, old, cnt, acq, last, rootCalls, build, aborted>>

\* ... in which rooted_tree_node_mutex is constructed: the Node base (hook
\* and payload) and the lock first ...
construct(t) ==
    /\ pc[t] = "construct"
    /\ nodes' = [nodes EXCEPT ![cid[t]] = [Foo(cnt[t] + 1) EXCEPT !.done = 0]]
    /\ pc' = [pc EXCEPT ![t] = "set_done"]
    /\ UNCHANGED <<pid, cid, old, cnt, acq, last, rootCalls, build, aborted>>

\* ... and done = 1 as the last member.
set_done(t) ==
    /\ pc[t] = "set_done"
    /\ nodes' = [nodes EXCEPT ![cid[t]].done = Foo(0).done]
    /\ pc' = [pc EXCEPT ![t] = "unlock_tree"]
    /\ UNCHANGED <<pid, cid, old, cnt, acq, last, rootCalls, build, aborted>>

\* End of the scope of the lock on the sentinel.
unlock_tree(t) ==
    /\ pc[t] = "unlock_tree"
    /\ nodes' = [nodes EXCEPT ![invalid].lock = 0]
    /\ pc' = [pc EXCEPT ![t] = "await"]
    /\ UNCHANGED <<pid, cid, old, cnt, acq, last, rootCalls, build, aborted>>

\* insert_impl: the assertion holds (pid_ is never invalid here); await
\* allocation, await construction, then cnode_->up = pid_.
set_up(t) ==
    /\ pc[t] = "await"
    /\ cid[t] < size(nodes)
    /\ nodes[cid[t]].done = 1
    /\ nodes' = [nodes EXCEPT ![cid[t]].up = pid[t]]
    /\ pc' = [pc EXCEPT ![t] = "lock_parent"]
    /\ UNCHANGED <<pid, cid, old, cnt, acq, last, rootCalls, build, aborted>>

\* scoped_lock lock ( nodes[ pid_.id ].lock );
lock_parent(t) ==
    /\ pc[t] = "lock_parent"
    /\ lock_free(nodes, lock_of_link(t))
    /\ nodes' = [nodes EXCEPT ![lock_of_link(t)].lock = t]
    /\ acq' = [acq EXCEPT ![pid[t]] = Append(@, cid[t])]
    /\ pc' = [pc EXCEPT ![t] = "exchange"]
    /\ UNCHANGED <<pid, cid, old, cnt, last, rootCalls, build, aborted>>

\* std::exchange ( nodes[ pid_.id ].tail, cid_ ): the right operand of the
\* assignment, evaluated before cnode_->prev is written.
exchange_load(t) ==
    /\ pc[t] = "exchange"
    /\ old' = [old EXCEPT ![t] = nodes[pid[t]].tail]
    /\ pc' = [pc EXCEPT ![t] = "store_tail"]
    /\ UNCHANGED <<nodes, pid, cid, cnt, acq, last, rootCalls, build, aborted>>

exchange_store(t) ==
    /\ pc[t] = "store_tail"
    /\ nodes' = store_tail(nodes, pid[t], cid[t])
    /\ pc' = [pc EXCEPT ![t] = "set_prev"]
    /\ UNCHANGED <<pid, cid, old, cnt, acq, last, rootCalls, build, aborted>>

\* cnode_->prev = (the value exchanged out).
set_prev(t) ==
    /\ pc[t] = "set_prev"
    /\ nodes' = store_prev(nodes, cid[t], old[t])
    /\ pc' = [pc EXCEPT ![t] = "fan"]
    /\ UNCHANGED <<pid, cid, old, cnt, acq, last, rootCalls, build, aborted>>

\* nodes[ pid_.id ].fan++;
fan(t) ==
    /\ pc[t] = "fan"
    /\ nodes' = fan_inc(nodes, pid[t])
    /\ pc' = [pc EXCEPT ![t] = "unlock_parent"]
    /\ UNCHANGED <<pid, cid, old, cnt, acq, last, rootCalls, build, aborted>>

\* End of the scope of the lock on the parent; return cid_.
unlock_parent(t) ==
    /\ pc[t] = "unlock_parent"
    /\ nodes' = [nodes EXCEPT ![lock_of_link(t)].lock = 0]
    /\ cnt' = [cnt EXCEPT ![t] = @ + 1]
    /\ pc' = [pc EXCEPT ![t] = "idle"]
    /\ pid' = [pid EXCEPT ![t] = 0]
    /\ cid' = [cid EXCEPT ![t] = 0]
    /\ old' = [old EXCEPT ![t] = 0]
    /\ UNCHANGED <<acq, last, rootCalls, build, aborted>>

NextCon ==
    /\ \E t \in Threads :
          \/ call(t)
          \/ lock_tree(t)
          \/ alloc(t)
          \/ construct(t)
          \/ set_done(t)
          \/ unlock_tree(t)
          \/ set_up(t)
          \/ lock_parent(t)
          \/ exchange_load(t)
          \/ exchange_store(t)
          \/ set_prev(t)
          \/ fan(t)
          \/ unlock_parent(t)
    /\ UNCHANGED extVars

SpecCon == InitCon /\ [][NextCon]_vars

\* t.join ( ) has returned for every producer.
Joined == \A t \in Threads : pc[t] = "idle" /\ cnt[t] = InsertsPerThread

C8_SecondRootRejected ==
    (last.op # "none" /\ last.parent = invalid /\ last.hadRoot) =>
        /\ size(nodes) = last.sizeBefore
        /\ nodes[invalid].tail = last.tailBefore
        /\ nodes[invalid].fan = last.fanBefore

\* C9: before any root insert exactly one node (the sentinel) has
\* up = invalid; after one root insert followed by any number of inserts
\* under existing nodes exactly two nodes have up = invalid (sentinel and
\* root) and the sentinel's tail equals 1.
UpInvalid(ns) == {n \in DOMAIN ns : ns[n].up = invalid}

C10_ReturnsAppendedIndex ==
    last.op = "emplace" =>
        /\ last.ret = last.sizeBefore
        /\ last.ret = size(nodes) - 1
        /\ nodes[last.parent].tail = last.ret

(***************************************************************************)
(* Claims about the concurrent tree.                                       *)
(***************************************************************************)
Reverse(w) == [i \in 1..Len(w) |-> w[Len(w) + 1 - i]]

\* The value p.tail had when the insert of c took p's lock: the child of the
\* previous holder of the lock, invalid for the first.
TailBefore(p, c) ==
    IF \E i \in 1..Len(acq[p]) : acq[p][i] = c
    THEN LET i == CHOOSE j \in 1..Len(acq[p]) : acq[p][j] = c
         IN  IF i = 1 THEN invalid ELSE acq[p][i - 1]
    ELSE -1

TreePhase == {"alloc", "construct", "set_done", "unlock_tree"}
LinkPhase == {"exchange", "store_tail", "set_prev", "fan", "unlock_parent"}

\* C1: once every producer thread has been joined the store holds
\* 2 + N * K slots, and for every parent p the walk p.tail, prev, prev, ...
\* has exactly p.fan steps and p.fan is the number of nodes whose up is p.
C1_ConcurrentGrowConsistent ==
    Joined =>
        /\ size(nodes) = ConSlots
        /\ \A p \in DOMAIN nodes :
              /\ SiblingListOK(nodes, p)
              /\ nodes[p].fan = Cardinality(Children(nodes, p))

\* Every producer has returned and two of them have linked a child under the
\* same parent (equal payloads come from different threads).
C1_Witness ==
    /\ Joined
    /\ \E a, b \in DOMAIN nodes :
          /\ a > root /\ b > a
          /\ nodes[a].up = nodes[b].up
          /\ nodes[a].value = nodes[b].value

\* C3: in every reachable state of the concurrent tree where parent.tail = c,
\* c.up = parent, c.done = 1 and c.prev holds the value parent.tail had
\* immediately before c was published.
C3_TailChildFullyLinked ==
    \A p \in DOMAIN nodes :
        LET c == nodes[p].tail IN
        c # invalid =>
            /\ c \in DOMAIN nodes
            /\ nodes[c].up = p
            /\ nodes[c].done = 1
            /\ nodes[c].prev = TailBefore(p, c)

\* C4: every NodeID held by a tail or prev field of the concurrent tree while
\* inserts are running refers to a slot whose done flag is 1 at that moment.
C4_LinkedIdsAreConstructed ==
    \A n \in DOMAIN nodes :
        \A x \in {nodes[n].tail, nodes[n].prev} :
            x \in DOMAIN nodes /\ nodes[x].done = 1

\* A slot is allocated and not yet constructed while another node already
\* has a sibling behind it and a parent below the root has a child.
C4_Witness ==
    /\ \E n \in DOMAIN nodes : nodes[n].done = 0
    /\ \E m \in DOMAIN nodes : nodes[m].prev > root
    /\ \E m \in DOMAIN nodes : m > root /\ nodes[m].tail > root

C6_ReverseLockOrder ==
    Joined => \A p \in DOMAIN nodes : Walk(nodes, p) = Reverse(acq[p])

\* A parent whose lock was taken first for the slot allocated later.
C6_Witness ==
    /\ Joined
    /\ \E p \in DOMAIN nodes :
          /\ Len(acq[p]) >= 2
          /\ acq[p][1] > acq[p][2]

C11_InsertFrame ==
    [][ /\ DOMAIN nodes \subseteq DOMAIN nodes'
        /\ \A n \in DOMAIN nodes :
              IF n = last'.parent
              THEN /\ nodes'[n].up = nodes[n].up
                   /\ nodes'[n].prev = nodes[n].prev
                   /\ nodes'[n].value = nodes[n].value
              ELSE nodes'[n] = nodes[n] ]_vars

\* An emplace under a parent below the root has returned on a tree that held
\* other nodes with children of their own.
C11_Witness ==
    /\ last.op = "emplace"
    /\ last.parent > root
    /\ size(nodes) = MaxSeqSlots
    /\ nodes[root].fan >= 2

(***************************************************************************)
(* The VM-backed vectors: vm_vector and vm_concurrent_vector of            *)
(* src/include/vm_backed.hpp, and vm_concurrent_vector of part_002 with    *)
(* its vm helper.  Memory is measured in bytes from the start of a         *)
(* vector's reservation; the sizes of the source (64 KiB pages, commit     *)
(* units of 1'600 / 1'024 pages, runs of 16 / 32 elements) are scaled      *)
(* down.                                                                   *)
(***************************************************************************)
\* The host's page size (65'536 in the source).
os_vm_page_size_b == 4
\* Pages in one commit unit (1'600 for vm_vector, 1'024 for the concurrent vector).
PagesPerChunk == 3
\* Elements in the run a thread reserves (16 in vm_backed.hpp, 32 in part_002).
thread_reserve_size == 2
\* Largest Capacity template argument.
MaxCapacity == 5
\* Largest number of emplace_back calls in one behaviour.
MaxAppends == 5

alloc_page_size_b == PagesPerChunk * os_vm_page_size_b

\* sizeof ( value_type ): one power of two and one that is none.
ElemSizes == {2, 3}

\* Vector instances of one type.
Instances == {1, 2}

min(a, b) == IF a < b THEN a ELSE b

RECURSIVE BitAnd(_, _)
BitAnd(a, b) ==
    IF a = 0 \/ b = 0 THEN 0
    ELSE (a % 2) * (b % 2) + 2 * BitAnd(a \div 2, b \div 2)

round_multiple(n_, multiple_) == ((n_ + multiple_ - 1) \div multiple_) * multiple_

\* vm_vector::capacity_b: Capacity * sizeof rounded up to a page.
capacity_b(C, E) ==
    LET cap == C * E IN
    IF cap % os_vm_page_size_b # 0
    THEN ((cap + os_vm_page_size_b) \div os_vm_page_size_b) * os_vm_page_size_b
    ELSE cap

\* vm_concurrent_vector::capacity_b: rounded up to a commit unit.
con_capacity_b(C, E) == round_multiple(C * E, alloc_page_size_b)

grow(cap_b_) == cap_b_ + alloc_page_size_b

\* The bytes reserved at construction.
Reserved ==
    IF vm.variant = "seq" THEN capacity_b(vm.Capacity, vm.E)
    ELSE con_capacity_b(vm.Capacity, vm.E)

\* A host that would commit any range it is asked for.
AcceptsAnywhere(willing, off, len, reserved) == willing /\ len > 0

\* VirtualAlloc ( address, len, MEM_COMMIT ): the host commits a non-empty
\* range that lies inside the reservation, when it has the memory.
HostAccepts(willing, off, len, reserved) ==
    willing /\ len > 0 /\ off + len <= reserved

Bytes(off, len) == off..(off + len - 1)

NoVec == [alive |-> FALSE, m_end |-> 0, committed |-> 0, hostc |-> {}]
NewVec == [alive |-> TRUE, m_end |-> 0, committed |-> 0, hostc |-> {}]

\* thread_data before the thread's first call: begin = end = nullptr (-1).
NoThreadData == [bound |-> FALSE, owner |-> 0, inst |-> 0, begin |-> -1, end |-> -1]

NoVmCall ==
    [op |-> "none", v |-> 0, t |-> 0, inst |-> 0, off |-> 0, result |-> "none",
     sizeBefore |-> 0, committedBefore |-> 0, refused |-> FALSE, hostOut |-> FALSE]

VmCall(v, t, inst, off, result, refused, willing) ==
    [op |-> "emplace_back", v |-> v, t |-> t, inst |-> inst, off |-> off,
     result |-> result, sizeBefore |-> vm.vec[v].m_end \div vm.E,
     committedBefore |-> vm.vec[v].committed, refused |-> refused,
     hostOut |-> ~willing]

\* No call has been made on the tree while the vectors are exercised.
TreeIdle ==
    /\ nodes = EmptyTree
    /\ last = NoCall
    /\ rootCalls = 0
    /\ build = [rev |-> "none", order |-> "none", asserts |-> FALSE]
    /\ aborted = FALSE
    /\ pc = [t \in Threads |-> "idle"]
    /\ pid = [t \in Threads |-> 0]
    /\ cid = [t \in Threads |-> 0]
    /\ old = [t \in Threads |-> 0]
    /\ cnt = [t \in Threads |-> 0]
    /\ acq = [n \in 0..(ConSlots - 1) |-> <<>>]

\* The constructors: the range is reserved, nothing is committed.  The
\* variant is vm_vector ("seq"), vm_concurrent_vector of vm_backed.hpp
\* ("con") or of part_002 ("p2"), the latter built for either host.
InitVm ==
    /\ TreeIdle
    /\ cur = [kind |-> "none"]
    /\ \E variant \in {"seq", "con", "p2"}, platform \in {"msvc", "posix"},
          E \in ElemSizes, C \in 1..MaxCapacity :
          /\ variant # "p2" => platform = "msvc"
          /\ vm = [variant |-> variant, platform |-> platform, E |-> E,
                   Capacity |-> C,
                   vec |-> [i \in Instances |->
                              IF variant = "seq" /\ i # 1 THEN NoVec ELSE NewVec],
                   tl |-> [t \in Threads |-> NoThreadData],
                   built |-> [i \in Instances |-> {}],
                   used |-> {}, clash |-> FALSE, crashed |-> FALSE, n |-> 0,
                   last |-> NoVmCall]

\* Whether the E bytes at off of instance i are committed memory.
Writable(vec, i, off) ==
    vec[i].alive /\ Bytes(off, vm.E) \subseteq vec[i].hostc

\* Whether a slot at off overlaps a slot constructed before.
Overlaps(i, off) == \E o \in vm.built[i] : o - off < vm.E /\ off - o < vm.E

\* The record of a call that got as far as the placement new at (i, off).
Constructed(vec, tl, v, t, i, off, refused, willing) ==
    IF Writable(vec, i, off)
    THEN [vm EXCEPT !.vec = vec, !.tl = tl, !.n = @ + 1,
                    !.used = @ \cup {v},
                    !.built = [@ EXCEPT ![i] = @ \cup {off}],
                    !.clash = @ \/ Overlaps(i, off),
                    !.last = VmCall(v, t, i, off, "ok", refused, willing)]
    ELSE [vm EXCEPT !.vec = vec, !.tl = tl, !.n = @ + 1,
                    !.used = @ \cup {v},
                    !.crashed = TRUE,
                    !.last = VmCall(v, t, i, off, "fault", refused, willing)]

\* The record of a call that threw std::bad_alloc.
Thrown(vec, tl, v, t, willing) ==
    [vm EXCEPT !.vec = vec, !.tl = tl, !.n = @ + 1, !.used = @ \cup {v},
               !.last = VmCall(v, t, v, 0, "bad_alloc", TRUE, willing)]

\* vm_vector::emplace_back: commit more when the committed bytes are used
\* up, then construct at m_end.
vm_vector_emplace_back(willing) ==
    LET v        == vm.vec[1]
        size_b   == v.m_end
        grows    == size_b = v.committed
        cib      == min(IF v.committed # 0 THEN grow(v.committed)
                                           ELSE alloc_page_size_b,
                        capacity_b(vm.Capacity, vm.E))
        accepted == HostAccepts(willing, size_b, cib - v.committed,
                                capacity_b(vm.Capacity, vm.E))
        v1       == IF grows
                    THEN [v EXCEPT !.committed = cib,
                                   !.hostc = @ \cup Bytes(size_b, cib - v.committed)]
                    ELSE v
        vec1     == [vm.vec EXCEPT ![1] = [v1 EXCEPT !.m_end = @ + vm.E]]
    IN  /\ vm.variant = "seq"
        /\ ~vm.crashed
        /\ vm.n < MaxAppends
        /\ ~grows => willing
        /\ vm' = IF grows /\ ~accepted
                 THEN Thrown(vm.vec, vm.tl, 1, 1, willing)
                 ELSE Constructed(vec1, vm.tl, 1, 1, 1, size_b, FALSE, willing)

\* get_thread_data: the thread's thread_data, made on the thread's first
\* call in the deque of the instance that call was made on.
get_thread_data(t, v) ==
    IF vm.tl[t].bound THEN vm.tl[t]
    ELSE [NoThreadData EXCEPT !.bound = TRUE, !.owner = v, !.inst = v]

\* vm_concurrent_vector::emplace_back of vm_backed.hpp with vm_allocate:
\* an empty run is refilled under m_end_mutex, committing one unit first when
\* size_b + thread_reserve_size reaches the committed count; the element is
\* constructed at tl.begin.
vm_concurrent_vector_emplace_back(t, v, willing) ==
    LET tl0      == get_thread_data(t, v)
        vv       == vm.vec[v]
        size_b   == vv.m_end
        refill   == tl0.begin = tl0.end
        grows    == refill /\ size_b + thread_reserve_size >= vv.committed
        at       == vv.committed * vm.E
        accepted == HostAccepts(willing, at, alloc_page_size_b,
                                con_capacity_b(vm.Capacity, vm.E))
        vv1      == IF grows
                    THEN [vv EXCEPT !.committed = @ + alloc_page_size_b,
                                    !.hostc = @ \cup Bytes(at, alloc_page_size_b)]
                    ELSE vv
        vv2      == IF refill
                    THEN [vv1 EXCEPT !.m_end = @ + thread_reserve_size * vm.E]
                    ELSE vv1
        tl1      == IF refill
                    THEN [tl0 EXCEPT !.inst = v, !.begin = size_b,
                                     !.end = size_b + thread_reserve_size * vm.E]
                    ELSE tl0
        tl2      == [tl1 EXCEPT !.begin = @ + vm.E]
    IN  /\ vm.variant = "con"
        /\ vv.alive
        /\ ~vm.crashed
        /\ vm.n < MaxAppends
        /\ ~grows => willing
        /\ vm' = IF grows /\ ~accepted
                 THEN Thrown(vm.vec, [vm.tl EXCEPT ![t] = tl0], v, t, willing)
                 ELSE Constructed([vm.vec EXCEPT ![v] = vv2],
                                  [vm.tl EXCEPT ![t] = tl2],
                                  v, t, tl1.inst, tl1.begin, FALSE, willing)

\* next_end of part_002's emplace_back: the next multiple of the run's bytes.
next_end(p, thread_reserve_size_b) ==
    ((p + thread_reserve_size_b) \div thread_reserve_size_b) * thread_reserve_size_b

\* vm_concurrent_vector::emplace_back of part_002 with vm::allocate: a run is
\* taken when the low bits of tld.begin under the mask
\* thread_reserve_size_b - 1 are zero; m_end is advanced first and a unit is
\* committed when m_end reaches m_begin + committed.  vm::allocate throws on
\* a failed commit under MSVC and ignores mmap's result elsewhere.  The
\* thread's reference into the colony of a destroyed instance dangles: the
\* read either faults or finds the old contents intact.
emplace_back_p002(t, v, willing, intact) ==
    LET thread_reserve_size_b == thread_reserve_size * vm.E
        tld0     == get_thread_data(t, v)
        dangling == ~vm.vec[tld0.owner].alive /\ ~intact
        vv       == vm.vec[v]
        take     == tld0.begin = -1
                    \/ BitAnd(tld0.begin, thread_reserve_size_b - 1) = 0
        m_end1   == next_end(vv.m_end, thread_reserve_size_b)
        grows    == take /\ m_end1 >= vv.committed * vm.E
        accepted == /\ vm.platform = "msvc"
                    /\ HostAccepts(willing, vv.committed, alloc_page_size_b,
                                   con_capacity_b(vm.Capacity, vm.E))
        throws   == grows /\ ~accepted /\ vm.platform = "msvc"
        refused  == grows /\ ~accepted /\ vm.platform = "posix" /\ ~willing
        vv1      == IF take THEN [vv EXCEPT !.m_end = m_end1] ELSE vv
        vv2      == IF grows /\ ~throws
                    THEN [vv1 EXCEPT
                            !.committed = @ + alloc_page_size_b,
                            !.hostc = IF accepted
                                      THEN @ \cup Bytes(vv.committed, alloc_page_size_b)
                                      ELSE @]
                    ELSE vv1
        tld1     == IF take THEN [tld0 EXCEPT !.inst = v, !.begin = vv.m_end]
                    ELSE tld0
        tld2     == [tld1 EXCEPT !.begin = @ + vm.E]
    IN  /\ vm.variant = "p2"
        /\ vv.alive
        /\ ~vm.crashed
        /\ vm.n < MaxAppends
        /\ ~grows => willing
        /\ vm.vec[tld0.owner].alive => intact
        /\ vm' = IF dangling
                 THEN [vm EXCEPT !.crashed = TRUE, !.n = @ + 1,
                                 !.used = @ \cup {v},
                                 !.last = VmCall(v, t, tld0.owner, 0, "fault",
                                                 FALSE, willing)]
                 ELSE IF throws
                 THEN Thrown([vm.vec EXCEPT ![v] = vv1],
                             [vm.tl EXCEPT ![t] = tld1], v, t, willing)
                 ELSE Constructed([vm.vec EXCEPT ![v] = vv2],
                                  [vm.tl EXCEPT ![t] = tld2],
                                  v, t, tld1.inst, tld1.begin, refused, willing)

\* ~vm_concurrent_vector: the memory is released; the thread data made for
\* the instance stays where the threads' references point.
vm_concurrent_vector_destroy(v) ==
    /\ vm.variant \in {"con", "p2"}
    /\ vm.vec[v].alive
    /\ ~vm.crashed
    /\ vm.used # {}
    /\ vm' = [vm EXCEPT !.vec = [@ EXCEPT ![v] = NoVec],
                        !.built = [@ EXCEPT ![v] = {}],
                        !.last = [NoVmCall EXCEPT !.op = "destroy", !.v = v]]

treeVars == <<seqVars, conVars>>

NextVm ==
    /\ \/ \E willing \in BOOLEAN : vm_vector_emplace_back(willing)
       \/ \E t \in Threads, v \in Instances, willing \in BOOLEAN :
             vm_concurrent_vector_emplace_back(t, v, willing)
       \/ \E t \in Threads, v \in Instances, willing, intact \in BOOLEAN :
             emplace_back_p002(t, v, willing, intact)
       \/ \E v \in Instances : vm_concurrent_vector_destroy(v)
    /\ UNCHANGED <<treeVars, cur>>

SpecVm == InitVm /\ [][NextVm]_vars

(***************************************************************************)
(* Claims about the VM-backed vectors.                                     *)
(***************************************************************************)

\* C12: on a vm_vector of logical capacity C whose host has memory to
\* commit, an append made while fewer than C elements are stored succeeds and
\* adds one element, and an append made when C elements are stored fails and
\* leaves the size at C.
C12_CapacityExhausted ==
    (vm.variant = "seq" /\ vm.last.op = "emplace_back" /\ ~vm.last.hostOut) =>
        /\ vm.last.sizeBefore < vm.Capacity =>
              /\ vm.last.result = "ok"
              /\ vm.vec[1].m_end = (vm.last.sizeBefore + 1) * vm.E
        /\ vm.last.sizeBefore >= vm.Capacity =>
              /\ vm.last.result = "bad_alloc"
              /\ vm.vec[1].m_end = vm.Capacity * vm.E

C14_NoSlotConstructedTwice ==
    (vm.variant \in {"con", "p2"} /\ Cardinality(vm.used) <= 1) => ~vm.clash

\* C15: every slot an emplace_back on v returns lies inside v's own
\* reserved range.
C15_SlotInsideOwnVector ==
    (vm.variant \in {"con", "p2"} /\ vm.last.op = "emplace_back"
        /\ vm.last.result # "bad_alloc") =>
        /\ vm.last.inst = vm.last.v
        /\ vm.last.off + vm.E <= Reserved

\* C16: when the host refuses a page commit during emplace_back, the call
\* fails with std::bad_alloc and leaves the size and the committed byte count
\* as they were.
C16_RefusedCommitLeavesVector ==
    (vm.last.op = "emplace_back" /\ vm.last.refused) =>
        /\ vm.last.result = "bad_alloc"
        /\ vm.vec[vm.last.v].m_end \div vm.E = vm.last.sizeBefore
        /\ vm.vec[vm.last.v].committed = vm.last.committedBefore

(***************************************************************************)
(* The cursors of revision C over a tree that is no longer changed: the    *)
(* tree is built by single-threaded inserts, then one cursor is made and   *)
(* advanced.  cur.seen records the ids at which the cursor was valid, in   *)
(* order: what a loop  for ( it{ tree }; it.is_valid ( ); ++it )  sees.    *)
(***************************************************************************)
\* Pop stack: the back of the vector.
pop_front(vec_) == [v |-> vec_[1], rest |-> Tail(vec_)]
pop(vec_) == [v |-> vec_[Len(vec_)], rest |-> SubSeq(vec_, 1, Len(vec_) - 1)]

\* Push stack.
push(vec_, v_) == Append(vec_, v_)

\* De-queue: the front of the deque.
de_back(deq_) == [v |-> deq_[Len(deq_)], rest |-> SubSeq(deq_, 1, Len(deq_) - 1)]
de(deq_) == [v |-> deq_[1], rest |-> Tail(deq_)]

\* En-queue.
en(deq_, v_) == Append(deq_, v_)

\* An advance of the up cursor that stays where it is.
up_stay(ns, n) == n

\* up_iterator::operator++: the parent.
up_next(ns, n) == ns[n].up

\* out_iterator::operator++: the next older sibling.
out_next_up(ns, n) == ns[n].up
out_next(ns, n) == ns[n].prev

\* for ( child = tree[ n ].tail; child.is_valid ( ); child = tree[ child ].prev )
\*     push ( stack, child );
\* (en ( queue, child ) adds at the same end.)
push_tail_only(ns, stack, n) ==
    IF ns[n].tail = invalid THEN stack ELSE push(stack, ns[n].tail)
push_children(ns, stack, n) == stack \o Walk(ns, n)

\* A push that does not look at fan.
push_any(ns, stack, n) == push_children(ns, stack, n)

\* for ( child = tree[ n ].tail; child.is_valid ( ); child = tree[ child ].prev )
\*     if ( tree[ child.id ].fan ) push ( stack, child );
push_internal(ns, stack, n) ==
    stack \o SelectSeq(Walk(ns, n), LAMBDA c : ns[c].fan # 0)

\* A cursor as constructed, before its class fills in its members.
Cursor(kind, nid_) ==
    [kind |-> kind, start |-> nid_, node |-> invalid, stack |-> <<>>,
     queue |-> <<>>, max_depth |-> 0, depth |-> 0, count |-> 0,
     seen |-> <<>>, steps |-> 0, past |-> 0, ub |-> FALSE, width |-> 0]

\* The cursor c after a constructor or an advance: the id it stands on is
\* recorded when it is valid.
Seen(c) == IF c.node # invalid THEN [c EXCEPT !.seen = Append(@, c.node)] ELSE c

\* What a read of slot 1 of a store that holds the sentinel alone may find:
\* the slot lies in the reserved but unconstructed part of the vector.
Garbage == {[ZeroNode EXCEPT !.tail = t, !.fan = f] : t \in {0, 1}, f \in {0, 1}}

\* The store as a cursor constructed at the default start node reads it:
\* nodes itself when the root exists, nodes with g in slot 1 otherwise.
Store(g) == IF root \in DOMAIN nodes THEN nodes ELSE push_back(nodes, g)

\* Whether a constructor is called with a start node it can be given: an
\* existing node, or the default root on a store without one.
StartAt(nid_, g) ==
    /\ cur.kind = "none"
    /\ nid_ \in (DOMAIN Store(g)) \ {invalid}
    /\ root \in DOMAIN nodes => g = ZeroNode

\* The cursor c as its constructor leaves it.
Started(c) == Seen([c EXCEPT !.ub = c.start \notin DOMAIN nodes])

\* The loop of leaf_iterator::operator++: pop until a node without children
\* is found or the stack is empty.
RECURSIVE leaf_loop(_, _, _)
leaf_loop(ns, stack, fuel) ==
    IF stack = <<>> \/ fuel = 0 THEN [node |-> invalid, stack |-> stack]
    ELSE LET top == pop(stack) IN
         IF ns[top.v].fan = 0 THEN [node |-> top.v, stack |-> top.rest]
         ELSE leaf_loop(ns, push_children(ns, top.rest, top.v), fuel - 1)

\* An advance that keeps no count of the levels.
breadth_increment_flat(ns, c) ==
    IF c.queue = <<>> THEN [c EXCEPT !.node = invalid]
    ELSE LET front == de(c.queue)
         IN  [c EXCEPT !.node = front.v,
                       !.queue = push_children(ns, front.rest, front.v)]

\* breadth_iterator::operator++.
breadth_increment(ns, c) ==
    LET queue_size == Len(c.queue)
        newLevel   == c.count = 0
        bounded    == c.max_depth = 0 \/ c.max_depth > 1
        stop       == newLevel /\ bounded /\ c.max_depth = c.depth
        count1     == IF newLevel THEN queue_size ELSE c.count
        depth1     == IF newLevel /\ bounded THEN c.depth + 1 ELSE c.depth
        front      == de(c.queue)
    IN  IF queue_size = 0 THEN [c EXCEPT !.node = invalid]
        ELSE IF stop
        THEN [c EXCEPT !.node = invalid, !.count = count1, !.depth = depth1]
        ELSE [c EXCEPT !.node = front.v, !.count = count1 - 1,
                       !.depth = depth1,
                       !.queue = push_children(ns, front.rest, front.v)]

\* Revision B, level_iterator::operator++.  The queue is not tested: de on
\* an empty deque is undefined (front ( ) of an empty container, the assert
\* aside), the id it returns is any id g.
level_increment(ns, c, g) ==
    LET newLevel == c.count = 0
        stop     == newLevel /\ c.max_depth # 0 /\ c.max_depth = c.depth
        count1   == IF newLevel THEN Len(c.queue) ELSE c.count
        depth1   == IF newLevel /\ c.max_depth # 0 THEN c.depth + 1 ELSE c.depth
        front    == de(c.queue)
    IN  IF stop
        THEN [c EXCEPT !.node = invalid, !.count = count1, !.depth = depth1]
        ELSE IF c.queue = <<>>
        THEN [c EXCEPT !.node = g, !.count = count1 - 1, !.depth = depth1,
                       !.ub = TRUE]
        ELSE [c EXCEPT !.node = front.v, !.count = count1 - 1,
                       !.depth = depth1,
                       !.queue = push_children(ns, front.rest, front.v)]

\* The largest max_depth a breadth_iterator is constructed with.
MaxDepthArg == 2

\* out_iterator ( tree_, nid_ ): node{ tree[ nid_.id ].tail }.
out_iterator(nid_) ==
    /\ cur.kind = "none"
    /\ nid_ \in DOMAIN nodes
    /\ cur' = Seen([Cursor("out", nid_) EXCEPT !.node = nodes[nid_].tail])

\* up_iterator ( tree_, nid_ ): node{ nid_ }.
up_iterator(nid_) ==
    /\ cur.kind = "none"
    /\ nid_ \in (DOMAIN nodes) \ {invalid}
    /\ cur' = Seen([Cursor("up", nid_) EXCEPT !.node = nid_])

\* depth_iterator ( tree_, nid_ ): node{ nid_ }, the children are pushed.
depth_iterator(nid_, g) ==
    /\ StartAt(nid_, g)
    /\ cur' = Started([Cursor("depth", nid_) EXCEPT
                          !.node = nid_,
                          !.stack = push_children(Store(g), <<>>, nid_)])

\* leaf_iterator ( tree_, nid_ ): the children are pushed; operator++ when
\* there are any, invalid otherwise.
leaf_iterator(nid_, g) ==
    /\ StartAt(nid_, g)
    /\ LET r == leaf_loop(Store(g), push_children(Store(g), <<>>, nid_),
                          size(nodes))
       IN  cur' = Started([Cursor("leaf", nid_) EXCEPT
                              !.node = r.node, !.stack = r.stack])

\* internal_iterator ( tree_, nid_ ): node{ nid_ } and the children with
\* children are pushed when nid_ has children, invalid otherwise.
internal_iterator(nid_, g) ==
    /\ StartAt(nid_, g)
    /\ cur' = Started(IF Store(g)[nid_].fan # 0
                      THEN [Cursor("internal", nid_) EXCEPT
                               !.node = nid_,
                               !.stack = push_internal(Store(g), <<>>, nid_)]
                      ELSE Cursor("internal", nid_))

\* breadth_iterator ( tree_, max_depth_, nid_ ).
breadth_iterator(max_depth_, nid_, g) ==
    /\ StartAt(nid_, g)
    /\ LET queue == IF max_depth_ = 0 \/ max_depth_ > 1
                    THEN push_children(Store(g), <<>>, nid_) ELSE <<>>
       IN  cur' = Started([Cursor("breadth", nid_) EXCEPT
                           !.node = nid_, !.queue = queue,
                           !.max_depth = max_depth_,
                           !.count = Len(queue),
                           !.depth = 1 + (IF Len(queue) # 0 THEN 1 ELSE 0)])

\* Revision B, level_iterator ( tree_, max_depth_, node_ ).
level_iterator(max_depth_, nid_) ==
    /\ cur.kind = "none"
    /\ nid_ \in (DOMAIN nodes) \ {invalid}
    /\ LET queue == push_children(nodes, <<>>, nid_)
       IN  cur' = Seen([Cursor("level", nid_) EXCEPT
                           !.node = nid_, !.queue = queue,
                           !.max_depth = max_depth_,
                           !.count = Len(queue), !.depth = 1])

\* A level loop that de-queues without en-queueing the children.
RECURSIVE level_drop(_, _, _)
level_drop(ns, queue, count) ==
    IF count = 0 \/ queue = <<>> THEN queue
    ELSE level_drop(ns, de(queue).rest, count - 1)

\* while ( count-- ) { parent = de ( queue ); for ( child ... ) en ( queue, child ); }
RECURSIVE level_loop(_, _, _)
level_loop(ns, queue, count) ==
    IF count = 0 \/ queue = <<>> THEN queue
    ELSE LET front == de(queue)
         IN  level_loop(ns, push_children(ns, front.rest, front.v), count - 1)

\* The outer loop of height of revision C, entered with count = 1:
\*     while ( count ) { <level loop>; count = queue.size ( );
\*                       if ( count > max_width ) max_width = count; depth += 1; }
RECURSIVE height_loop(_, _, _, _, _, _)
height_loop(ns, queue, count, depth, max_width, fuel) ==
    IF count = 0 \/ fuel = 0 THEN [depth |-> depth, width |-> max_width]
    ELSE LET q1 == level_loop(ns, queue, count)
             c1 == Len(q1)
         IN  height_loop(ns, q1, c1, depth + 1,
                         IF c1 > max_width THEN c1 ELSE max_width, fuel - 1)

\* The loop of height of revision B:
\*     while ( ( count = queue.size ( ) ) ) { <level loop>; depth += 1; }
RECURSIVE height_loop_B(_, _, _, _)
height_loop_B(ns, queue, depth, fuel) ==
    IF queue = <<>> \/ fuel = 0 THEN depth
    ELSE height_loop_B(ns, level_loop(ns, queue, Len(queue)), depth + 1, fuel - 1)

\* height ( rid_, width_ ) of revision C: the result and *width_.
height(rid_) ==
    /\ cur.kind = "none"
    /\ rid_ \in (DOMAIN nodes) \ {invalid}
    /\ LET r == height_loop(nodes, <<rid_>>, 1, 0, 0, size(nodes))
       IN  cur' = [Cursor("height", rid_) EXCEPT !.depth = r.depth,
                                                 !.width = r.width]

\* height ( root_ ) of revision B.
height_B(root_) ==
    /\ cur.kind = "none"
    /\ root_ \in (DOMAIN nodes) \ {invalid}
    /\ cur' = [Cursor("height_B", root_) EXCEPT
                  !.depth = height_loop_B(nodes, <<root_>>, 0, size(nodes))]

\* operator++ of the cursor's class.  cur.past counts the advances made on
\* a cursor that was invalid.
increment ==
    /\ cur.kind \in {"out", "up", "depth", "internal", "leaf", "breadth", "level"}
    /\ cur.steps <= size(nodes)
    /\ ~cur.ub
    /\ LET c == [cur EXCEPT !.steps = @ + 1,
                            !.past = IF cur.node = invalid THEN @ + 1 ELSE @]
       IN
       \/ /\ cur.kind = "out"
          /\ cur' = Seen([c EXCEPT !.node = out_next(nodes, cur.node)])
       \/ /\ cur.kind = "up"
          /\ cur' = Seen([c EXCEPT !.node = up_next(nodes, cur.node)])
       \/ /\ cur.kind = "depth"
          /\ cur' = Seen(IF cur.stack # <<>>
                         THEN LET top == pop(cur.stack) IN
                              [c EXCEPT !.node = top.v,
                                        !.stack = push_children(nodes, top.rest, top.v)]
                         ELSE [c EXCEPT !.node = invalid])
       \/ /\ cur.kind = "internal"
          /\ cur' = Seen(IF cur.stack # <<>>
                         THEN LET top == pop(cur.stack) IN
                              [c EXCEPT !.node = top.v,
                                        !.stack = push_internal(nodes, top.rest, top.v)]
                         ELSE [c EXCEPT !.node = invalid])
       \/ /\ cur.kind = "leaf"
          /\ LET r == leaf_loop(nodes, cur.stack, size(nodes))
             IN  cur' = Seen([c EXCEPT !.node = r.node, !.stack = r.stack])
       \/ /\ cur.kind = "breadth"
          /\ cur' = Seen(breadth_increment(nodes, c))
       \/ /\ cur.kind = "level"
          /\ \E g \in DOMAIN nodes : cur' = Seen(level_increment(nodes, c, g))

(***************************************************************************)
(* make_sub and sub of revision B, reroot and flatten of revision A.  The  *)
(* new store is filled by insert / emplace with the old node as argument:  *)
(* the node is copied whole, hook included, then its up and prev are set.  *)
(***************************************************************************)
\* tree.insert ( source_, std::move ( node_ ) ) of revision B and
\* sub_tree.emplace ( source_, std::move ( node_ ) ) of revision A, where
\* node_ is a node of the old store.
insert_node(tree, source_, node_) ==
    insert_impl_seq(push_back(tree, node_), source_, size(tree), size(tree))

\* de ( queue ) of revision B (queue.front ( ) and queue.pop_front ( ) in
\* reroot): the front of the deque.
de_B(d_) == [v |-> Head(d_), rest |-> Tail(d_)]

\* for ( child = tail; child.is_valid ( ); child = prev )
\*     if ( index[ child.id ].is_invalid ( ) ) {
\*         index[ child.id ] = sub_tree_size++;  en ( queue, child ); }
RECURSIVE sub_children(_, _)
sub_children(st, w) ==
    IF w = <<>> THEN st
    ELSE LET c == Head(w)
         IN  sub_children(IF st.index[c] = invalid
                          THEN [st EXCEPT !.index[c] = st.next,
                                          !.next = @ + 1,
                                          !.queue = en(@, c)]
                          ELSE st,
                          Tail(w))

\* while ( count-- ) { parent = de ( queue ); <children>;
\*                     tree.insert ( index[ nodes[ parent.id ].up.id ], nodes[ parent.id ] ); }
RECURSIVE sub_level(_, _, _)
sub_level(ns, st, count) ==
    IF count = 0 \/ st.queue = <<>> THEN st
    ELSE LET front == de_B(st.queue)
             s1    == sub_children([st EXCEPT !.queue = front.rest],
                                   Walk(ns, front.v))
             s2    == [s1 EXCEPT !.tree = insert_node(s1.tree,
                                                      s1.index[ns[front.v].up],
                                                      ns[front.v])]
         IN  sub_level(ns, s2, count - 1)

\* The outer loop of make_sub_impl, left after level max_depth_.
RECURSIVE make_sub_loop(_, _, _, _, _)
make_sub_loop(ns, st, max_depth_, depth, fuel) ==
    IF st.queue = <<>> \/ fuel = 0 THEN st
    ELSE LET s1 == sub_level(ns, st, Len(st.queue))
         IN  IF max_depth_ # 0 /\ max_depth_ = depth THEN s1
             ELSE make_sub_loop(ns, s1, max_depth_,
                                IF max_depth_ # 0 THEN depth + 1 ELSE depth,
                                fuel - 1)

\* The locals of make_sub_impl and of reroot before their loops.
SubStart(ns, root_) ==
    [tree |-> EmptyTree,
     index |-> [n \in DOMAIN ns |-> IF n = root_ THEN root ELSE invalid],
     queue |-> <<root_>>, next |-> 2]

make_sub_impl(ns, max_depth_, root_) ==
    make_sub_loop(ns, SubStart(ns, root_), max_depth_, 1, size(ns))

\* The loop of reroot: one parent at a time until the queue is empty.
RECURSIVE reroot_loop(_, _, _)
reroot_loop(ns, st, fuel) ==
    IF st.queue = <<>> \/ fuel = 0 THEN st
    ELSE reroot_loop(ns, sub_level(ns, st, 1), fuel - 1)

\* The loop of flatten over the children of the old root.
RECURSIVE flatten_loop(_, _, _)
flatten_loop(ns, tree, w) ==
    IF w = <<>> THEN tree
    ELSE flatten_loop(ns, insert_node(tree, root, ns[Head(w)]), Tail(w))

\* What a call left behind: the store before it, the store it produced and
\* the new id of every old node (invalid for a node that was not taken).
SubResult(kind, root_, max_depth_, ok, tree, index) ==
    [kind |-> kind, start |-> root_, max_depth |-> max_depth_, ok |-> ok,
     before |-> nodes, tree |-> tree, index |-> index]

\* make_sub ( max_depth_, root_ ) of revision B:
\*     if ( not max_depth_ and root == root_ ) return;
\*     return make_sub_impl ( max_depth_, root );
\* The first return gives no tree.
make_sub(max_depth_, root_) ==
    /\ cur.kind = "none"
    /\ root_ \in (DOMAIN nodes) \ {invalid}
    /\ LET r == make_sub_impl(nodes, max_depth_, root)
       IN  cur' = IF max_depth_ = 0 /\ root = root_
                  THEN SubResult("make_sub", root_, max_depth_, FALSE,
                                 EmptyTree, [n \in DOMAIN nodes |-> invalid])
                  ELSE SubResult("make_sub", root_, max_depth_, TRUE,
                                 r.tree, r.index)
    /\ UNCHANGED nodes

\* sub ( max_depth_, root_ ) of revision B: the store is left alone for
\* ( 0, root ), otherwise it is swapped for the one make_sub_impl made.
sub(max_depth_, root_) ==
    /\ cur.kind = "none"
    /\ root_ \in (DOMAIN nodes) \ {invalid}
    /\ LET r == make_sub_impl(nodes, max_depth_, root_)
       IN  IF max_depth_ = 0 /\ root = root_
           THEN /\ cur' = SubResult("sub", root_, max_depth_, TRUE, nodes,
                                    [n \in DOMAIN nodes |-> n])
                /\ UNCHANGED nodes
           ELSE /\ cur' = SubResult("sub", root_, max_depth_, TRUE, r.tree,
                                    r.index)
                /\ nodes' = r.tree

\* reroot ( root_ ) of revision A.
reroot(root_) ==
    /\ cur.kind = "none"
    /\ root_ \in (DOMAIN nodes) \ {invalid}
    /\ LET r == reroot_loop(nodes, SubStart(nodes, root_), size(nodes))
       IN  /\ cur' = SubResult("reroot", root_, 0, TRUE, r.tree, r.index)
           /\ nodes' = r.tree

\* flatten ( ) of revision A: sub_tree{ std::move ( nodes[ root.id ] ) },
\* then one emplace under root per child of the old root.
flatten ==
    /\ cur.kind = "none"
    /\ root \in DOMAIN nodes
    /\ LET t == flatten_loop(nodes, insert_node(EmptyTree, invalid, nodes[root]),
                             Walk(nodes, root))
       IN  /\ cur' = SubResult("flatten", root, 0, TRUE, t,
                                [n \in DOMAIN nodes |-> invalid])
           /\ nodes' = t

\* flatten ( ) of the earlier revision (part_005): the new root is built from
\* the payload of the old one and is not linked under the sentinel; the
\* children are copied whole by add_node, which links like emplace.
flatten_p005 ==
    /\ cur.kind = "none"
    /\ root \in DOMAIN nodes
    /\ LET t == flatten_loop(nodes, push_back(EmptyTree, Foo(nodes[root].value)),
                             Walk(nodes, root))
       IN  /\ cur' = SubResult("flatten_p005", root, 0, TRUE, t,
                                [n \in DOMAIN nodes |-> invalid])
           /\ nodes' = t

\* What a read of a slot past the end of the store may find in the reserved
\* part of the vector.
PastTheEnd == {[ZeroNode EXCEPT !.prev = p] : p \in {invalid, root}}

\* The loop of flatten on a store whose child list need not be well formed:
\* a child id outside the store is read past the end (g is what is found
\* there), and a walk that comes back to a node it has visited never ends.
RECURSIVE flatten_walk(_, _, _, _, _)
flatten_walk(ns, tree, child, g, fuel) ==
    IF child = invalid THEN [tree |-> tree, ok |-> TRUE]
    ELSE IF fuel = 0 THEN [tree |-> tree, ok |-> FALSE]
    ELSE IF child \notin DOMAIN ns
         THEN flatten_walk(ns, insert_node(tree, root, g), g.prev, g, fuel - 1)
         ELSE flatten_walk(ns, insert_node(tree, root, ns[child]),
                           ns[child].prev, g, fuel - 1)

\* flatten ( ) called again on the store that flatten ( ) left, in the
\* revision of the first call.
flatten_again(g) ==
    /\ cur.kind \in {"flatten", "flatten_p005"}
    /\ LET t0 == IF cur.kind = "flatten"
                 THEN insert_node(EmptyTree, invalid, nodes[root])
                 ELSE push_back(EmptyTree, Foo(nodes[root].value))
           r  == flatten_walk(nodes, t0, nodes[root].tail, g, size(nodes) + 2)
       IN  /\ cur' = SubResult(IF cur.kind = "flatten" THEN "flatten_again"
                                ELSE "flatten_again_p005",
                                root, 0, r.ok, r.tree,
                                [n \in DOMAIN nodes |-> invalid])
           /\ nodes' = IF r.ok THEN r.tree ELSE nodes

\* A depth test that never stops the search.
depth_unbounded(max_depth_, depth) == FALSE

\* if ( max_depth_ ) if ( max_depth_ == depth++ ) break;
depth_reached(max_depth_, depth) == max_depth_ # 0 /\ max_depth_ = depth

\* function_ ( nodes[ parent.id ], value_ ): the predicates of the model hold
\* of the nodes whose payload is in the set value_.
function_(node, value_) == node.value \in value_

\* apply: while ( count-- ) { parent = de ( queue ); en-queue the children;
\*                            if ( function_ ( ... ) ) return parent; }
RECURSIVE apply_level(_, _, _, _)
apply_level(ns, queue, value_, count) ==
    IF count = 0 \/ queue = <<>> THEN [queue |-> queue, ret |-> invalid]
    ELSE LET front == de_B(queue)
             q1    == front.rest \o Walk(ns, front.v)
         IN  IF function_(ns[front.v], value_)
             THEN [queue |-> q1, ret |-> front.v]
             ELSE apply_level(ns, q1, value_, count - 1)

\* apply: the outer loop; return invalid after it.
RECURSIVE apply_loop(_, _, _, _, _, _)
apply_loop(ns, queue, value_, max_depth_, depth, fuel) ==
    IF queue = <<>> \/ fuel = 0 THEN invalid
    ELSE LET r == apply_level(ns, queue, value_, Len(queue))
         IN  IF r.ret # invalid THEN r.ret
             ELSE IF depth_reached(max_depth_, depth) THEN invalid
             ELSE apply_loop(ns, r.queue, value_, max_depth_,
                             IF max_depth_ # 0 THEN depth + 1 ELSE depth,
                             fuel - 1)

\* The predicates: true of one payload, or of two payloads next to each
\* other (no node below the sentinel has payload 0).
Predicates == UNION {{{v}, {v, v + 1}} : v \in 0..(MaxSeqSlots - 1)}

\* apply ( function_, value_, max_depth_, root_ ) of revision B.
apply(value_, max_depth_, root_) ==
    /\ cur.kind = "none"
    /\ root_ \in (DOMAIN nodes) \ {invalid}
    /\ cur' = [kind |-> "apply", start |-> root_, max_depth |-> max_depth_,
               value |-> value_,
               ret |-> apply_loop(nodes, <<root_>>, value_, max_depth_, 1,
                                  size(nodes))]

InitCur == InitSeq

NextCur ==
    \/ /\ cur.kind = "none"
       /\ \E p \in 0..(MaxSeqSlots - 1) : insert(p, size(nodes))
       /\ UNCHANGED extVars
    \/ /\ \/ \E p \in 0..(MaxSeqSlots - 1) : out_iterator(p)
          \/ \E p \in 0..(MaxSeqSlots - 1) : up_iterator(p)
          \/ \E p \in 0..(MaxSeqSlots - 1), g \in Garbage : depth_iterator(p, g)
          \/ \E p \in 0..(MaxSeqSlots - 1), g \in Garbage : leaf_iterator(p, g)
          \/ \E p \in 0..(MaxSeqSlots - 1), g \in Garbage :
                internal_iterator(p, g)
          \/ \E p \in 0..(MaxSeqSlots - 1), d \in 0..MaxDepthArg, g \in Garbage :
                breadth_iterator(d, p, g)
          \/ \E p \in 0..(MaxSeqSlots - 1), d \in 0..MaxDepthArg :
                level_iterator(d, p)
          \/ \E p \in 0..(MaxSeqSlots - 1) : height(p)
          \/ \E p \in 0..(MaxSeqSlots - 1) : height_B(p)
          \/ increment
          \/ /\ rootCalls = 1
             /\ \E p \in 1..(MaxSeqSlots - 1), d \in 0..MaxDepthArg, f \in Predicates :
                   apply(f, d, p)
       /\ UNCHANGED <<treeVars, vm>>
    \/ /\ \/ \E p \in 0..(MaxSeqSlots - 1), d \in 0..MaxDepthArg : make_sub(d, p)
          \/ \E p \in 0..(MaxSeqSlots - 1), d \in 0..MaxDepthArg : sub(d, p)
          \/ \E p \in 0..(MaxSeqSlots - 1) : reroot(p)
          \/ flatten
          \/ flatten_p005
          \/ \E g \in PastTheEnd : flatten_again(g)
       /\ UNCHANGED <<last, rootCalls, build, aborted, conVars, vm>>

SpecCur == InitCur /\ [][NextCur]_vars

(***************************************************************************)
(* Claims about the cursors.                                               *)
(***************************************************************************)
\* The ids of S from the largest to the smallest: ids are handed out in
\* insertion order, so this is reverse insertion order.
RECURSIVE DescSeq(_)
DescSeq(S) ==
    IF S = {} THEN <<>>
    ELSE LET m == CHOOSE x \in S : \A y \in S : y <= x
         IN  <<m>> \o DescSeq(S \ {m})

\* The level of n: the root is on level 1.
RECURSIVE Level(_, _, _)
Level(ns, n, fuel) ==
    IF n = invalid \/ fuel = 0 THEN 0 ELSE 1 + Level(ns, ns[n].up, fuel - 1)

NoRepeat(w) == \A i, j \in 1..Len(w) : w[i] = w[j] => i = j

Range(w) == {w[i] : i \in 1..Len(w)}

\* C17: the down cursor started at p yields p's direct children, each once,
\* the most recently inserted first, and is invalid from the advance after
\* the last of them.
C17_DownCursorReverseInsertion ==
    cur.kind = "out" =>
        LET want == DescSeq(Children(nodes, cur.start)) IN
        /\ cur.seen = SubSeq(want, 1, min(cur.steps + 1, Len(want)))
        /\ cur.node = invalid <=> cur.steps >= Len(want)

C17_Witness ==
    /\ cur.kind = "out"
    /\ cur.start # invalid
    /\ cur.node = invalid
    /\ Len(cur.seen) >= 3

\* C18: the depth-first cursor started at the root of a tree visits no node
\* twice and has visited every non-sentinel node when it becomes invalid,
\* which it does on the advance after the last node.
C18_DepthVisitsEachOnce ==
    (cur.kind = "depth" /\ cur.start = root /\ rootCalls = 1) =>
        /\ NoRepeat(cur.seen)
        /\ cur.node = invalid <=> cur.steps >= size(nodes) - 1
        /\ cur.node = invalid => Range(cur.seen) = (DOMAIN nodes) \ {invalid}

C18_Witness ==
    /\ cur.kind = "depth"
    /\ cur.start = root
    /\ rootCalls = 1
    /\ cur.node = invalid
    /\ size(nodes) = MaxSeqSlots
    /\ nodes[root].fan >= 2
    /\ \E n \in DOMAIN nodes : Level(nodes, n, size(nodes)) >= 3

\* C19 (as stated): the depth-first cursor and the leaf cursor visit the
\* children of one node in the order of the down cursor, the most recently
\* inserted first.
C19_DepthFollowsDownOrder ==
    cur.kind \in {"depth", "leaf"} =>
        \A i, j \in 1..Len(cur.seen) :
            (i < j /\ nodes[cur.seen[i]].up = nodes[cur.seen[j]].up
                   /\ cur.seen[i] # cur.start /\ cur.seen[j] # cur.start)
                => cur.seen[i] > cur.seen[j]

\* C19 (amended): the depth-first cursor and the leaf cursor visit the
\* children of one node in insertion order, the oldest first, which is the
\* opposite of the order of the down cursor.
C19_DepthInsertionOrder ==
    cur.kind \in {"depth", "leaf"} =>
        \A i, j \in 1..Len(cur.seen) :
            (i < j /\ nodes[cur.seen[i]].up = nodes[cur.seen[j]].up
                   /\ cur.seen[i] # cur.start /\ cur.seen[j] # cur.start)
                => cur.seen[i] < cur.seen[j]

\* C19 witness: the leaf cursor has run over a star whose root has at least
\* three children and has yielded them oldest first.
C19_Witness ==
    /\ cur.kind = "leaf"
    /\ cur.start = root
    /\ cur.node = invalid
    /\ root \in DOMAIN nodes
    /\ nodes[root].fan >= 3
    /\ nodes[root].fan = size(nodes) - 2
    /\ cur.seen = Reverse(DescSeq(Children(nodes, root)))

\* C20: the breadth-first cursor started at the root of a tree without a
\* depth bound visits no node twice, never goes back to a lower level, and
\* has visited all size - 1 non-sentinel nodes when it becomes invalid, which
\* it does on the advance after the last node.
C20_BreadthVisitsEachOnce ==
    (cur.kind = "breadth" /\ cur.start = root /\ cur.max_depth = 0
        /\ rootCalls = 1) =>
        /\ NoRepeat(cur.seen)
        /\ \A i, j \in 1..Len(cur.seen) :
              i < j => Level(nodes, cur.seen[i], size(nodes))
                          <= Level(nodes, cur.seen[j], size(nodes))
        /\ cur.node = invalid <=> cur.steps >= size(nodes) - 1
        /\ cur.node = invalid =>
              /\ Range(cur.seen) = (DOMAIN nodes) \ {invalid}
              /\ Len(cur.seen) = size(nodes) - 1

C20_Witness ==
    /\ cur.kind = "breadth"
    /\ cur.start = root
    /\ cur.max_depth = 0
    /\ rootCalls = 1
    /\ cur.node = invalid
    /\ size(nodes) = MaxSeqSlots
    /\ \E n \in DOMAIN nodes :
          /\ Level(nodes, n, size(nodes)) >= 3
          /\ \E m \in DOMAIN nodes : m > n /\ Level(nodes, m, size(nodes)) = 2

\* The level of n counted from s (s itself is on level 1), 0 when n is not
\* in the subtree of s.
RECURSIVE Below(_, _, _, _)
Below(ns, s, n, fuel) ==
    IF n = s THEN 1
    ELSE IF n = invalid \/ fuel = 0 THEN 0
    ELSE LET r == Below(ns, s, ns[n].up, fuel - 1)
         IN  IF r = 0 THEN 0 ELSE r + 1

\* The nodes of the subtree of s on the first d levels, all of them for d = 0.
Within(ns, s, d) ==
    {n \in (DOMAIN ns) \ {invalid} :
        LET l == Below(ns, s, n, size(ns)) IN l >= 1 /\ (d = 0 \/ l <= d)}

\* C21: with a maximum depth d > 0 the breadth-first cursor (breadth_iterator,
\* and level_iterator of revision B) yields exactly the nodes on the first d
\* levels of the start node's subtree, each once, and is invalid on the
\* advance after the last of them.
C21_BoundedBreadth ==
    (cur.kind \in {"breadth", "level"} /\ cur.start \in DOMAIN nodes
        /\ cur.max_depth > 0 /\ cur.past = 0) =>
        LET want == Within(nodes, cur.start, cur.max_depth) IN
        /\ ~cur.ub
        /\ NoRepeat(cur.seen)
        /\ Range(cur.seen) \subseteq want
        /\ cur.node = invalid <=> cur.steps >= Cardinality(want)

\* C22: the leaf cursor started at s yields exactly the nodes of s's subtree
\* with fan = 0, each once, s itself included when s has no children.
C22_LeafCursorYieldsLeaves ==
    (cur.kind = "leaf" /\ cur.start \in DOMAIN nodes /\ cur.past = 0) =>
        LET want == {n \in Within(nodes, cur.start, 0) : nodes[n].fan = 0} IN
        /\ NoRepeat(cur.seen)
        /\ Range(cur.seen) \subseteq want
        /\ cur.node = invalid => Range(cur.seen) = want

\* C23: the internal cursor started at s yields exactly the nodes of s's
\* subtree with fan > 0, each once, and is invalid from the advance after
\* the last of them.
C23_InternalCursorYieldsInternal ==
    (cur.kind = "internal" /\ cur.start \in DOMAIN nodes) =>
        LET want == {n \in Within(nodes, cur.start, 0) : nodes[n].fan > 0} IN
        /\ NoRepeat(cur.seen)
        /\ Range(cur.seen) \subseteq want
        /\ cur.node = invalid <=> cur.steps >= Cardinality(want)
        /\ cur.node = invalid => Range(cur.seen) = want

\* C23 witness: an internal cursor has run to its end over a subtree with
\* at least three internal nodes and at least two leaves.
C23_Witness ==
    /\ cur.kind = "internal"
    /\ cur.node = invalid
    /\ Len(cur.seen) >= 3
    /\ Cardinality({n \in Within(nodes, cur.start, 0) : nodes[n].fan = 0}) >= 2

\* The number of levels of the subtree of r: 1 for a node without children,
\* otherwise 1 plus the largest number of levels of a child's subtree.
RECURSIVE Levels(_, _, _)
Levels(ns, r, fuel) ==
    IF fuel = 0 THEN 0
    ELSE LET below == {Levels(ns, c, fuel - 1) : c \in Children(ns, r)}
         IN  IF below = {} THEN 1
             ELSE 1 + CHOOSE x \in below : \A y \in below : y <= x

\* C24: height ( r ) of both revisions returns the number of levels of the
\* subtree rooted at r.
C24_HeightIsLevels ==
    cur.kind \in {"height", "height_B"} =>
        cur.depth = Levels(nodes, cur.start, size(nodes))

\* C24 witness: height of revision C has returned 5 on a chain of five nodes.
C24_Witness ==
    /\ cur.kind = "height"
    /\ cur.start = root
    /\ cur.depth = MaxSeqSlots - 1
    /\ \A n \in (DOMAIN nodes) \ {invalid} : nodes[n].fan <= 1

\* The number of nodes of the subtree of r on level l.
LevelSize(ns, r, l) ==
    Cardinality({n \in Within(ns, r, 0) : Below(ns, r, n, size(ns)) = l})

\* C25: the width reported by height ( r, width ) is the largest number of
\* nodes on one level of the subtree rooted at r, the level of r included.
C25_WidthIsWidestLevel ==
    cur.kind = "height" =>
        /\ \A l \in 1..size(nodes) : LevelSize(nodes, cur.start, l) <= cur.width
        /\ \E l \in 1..size(nodes) : LevelSize(nodes, cur.start, l) = cur.width

\* C26: height ( root ) equals the value height ( ) of a breadth-first cursor
\* that was started at the root without a depth bound and advanced until it
\* became invalid.
C26_HeightEqualsCursorHeight ==
    (cur.kind = "breadth" /\ cur.start = root /\ cur.max_depth = 0
        /\ cur.node = invalid) =>
        /\ cur.depth = height_loop(nodes, <<root>>, 1, 0, 0, size(nodes)).depth
        /\ cur.depth = height_loop_B(nodes, <<root>>, 0, size(nodes))

\* C26 witness: such a cursor has become invalid on a tree of at least three
\* levels with a level of more than one node.
C26_Witness ==
    /\ cur.kind = "breadth"
    /\ cur.start = root
    /\ cur.max_depth = 0
    /\ cur.node = invalid
    /\ cur.depth >= 3
    /\ \E n \in DOMAIN nodes : nodes[n].fan >= 2

\* C27: on a store that holds the sentinel alone, a cursor constructed with
\* its default start node (the root; the sentinel for the down cursor, which
\* has no default) is invalid immediately after construction.
C27_EmptyTreeCursorsInvalid ==
    (cur.kind \in {"out", "depth", "leaf", "internal", "breadth"}
        /\ size(nodes) = 1 /\ cur.steps = 0) =>
        cur.node = invalid

(***************************************************************************)
(* Claims about make_sub, sub, reroot and flatten.                         *)
(***************************************************************************)
\* The payloads held by the nodes ids of the store ns.
Payloads(ns, ids) == {ns[n].value : n \in ids}

\* C28: make_sub ( max_depth, r ) returns a tree whose nodes are exactly r
\* and the descendants of r on the first max_depth levels (all of them for
\* max_depth 0), for every node r.
C28_MakeSubOfAnyNode ==
    cur.kind = "make_sub" =>
        /\ cur.ok
        /\ Payloads(cur.tree, (DOMAIN cur.tree) \ {invalid})
              = Payloads(cur.before, Within(cur.before, cur.start, cur.max_depth))
        /\ size(cur.tree) - 1
              = Cardinality(Within(cur.before, cur.start, cur.max_depth))

\* C29: after reroot ( x ) on a node x that has children, slot 1 holds the
\* old x, the nodes are exactly x and its old descendants, the ids are
\* exactly 1..M, and the parent-child relation is the old one: every node's
\* up is the new id of its old parent and every node's child list holds the
\* new ids of its old children.
C29_RerootKeepsRelation ==
    (cur.kind = "reroot" /\ rootCalls = 1 /\ cur.before[cur.start].fan > 0) =>
        LET D == Within(cur.before, cur.start, 0)
            M == Cardinality(D)
        IN  /\ DOMAIN cur.tree = 0..M
            /\ {cur.index[n] : n \in D} = 1..M
            /\ cur.index[cur.start] = root
            /\ cur.tree[root].up = invalid
            /\ \A n \in D :
                  /\ cur.tree[cur.index[n]].value = cur.before[n].value
                  /\ n # cur.start =>
                        cur.tree[cur.index[n]].up = cur.index[cur.before[n].up]
                  /\ Range(Walk(cur.tree, cur.index[n]))
                        = {cur.index[c] : c \in Range(Walk(cur.before, n))}

\* C30: in the tree produced by make_sub, sub, reroot or flatten the walk
\* tail, prev, prev, ... of every node p ends at invalid after exactly fan
\* steps, stays inside the new store and visits only nodes whose up is p.
C30_ProducedTreeSiblingLists ==
    (cur.kind \in {"make_sub", "sub", "reroot", "flatten"} /\ cur.ok) =>
        \A p \in DOMAIN cur.tree : SiblingListOK(cur.tree, p)

\* The sequence w of old ids under the re-numbering index.
Renumbered(index, w) == [i \in 1..Len(w) |-> index[w[i]]]

\* C31: make_sub without a depth bound on the root returns a tree equal to
\* the original under the breadth-first re-numbering: as many nodes, the
\* same payloads, the same parent relation and the same sibling order.
C31_MakeSubRootIsRenumbering ==
    (cur.kind = "make_sub" /\ cur.max_depth = 0 /\ cur.start = root
        /\ rootCalls = 1) =>
        /\ cur.ok
        /\ size(cur.tree) = size(cur.before)
        /\ \A n \in (DOMAIN cur.before) \ {invalid} :
              /\ cur.index[n] \in (DOMAIN cur.tree) \ {invalid}
              /\ cur.tree[cur.index[n]].value = cur.before[n].value
              /\ cur.tree[cur.index[n]].up = cur.index[cur.before[n].up]
              /\ Walk(cur.tree, cur.index[n])
                    = Renumbered(cur.index, Walk(cur.before, n))

\* C32: flatten is idempotent: a second flatten returns and leaves the tree
\* (ids, hook fields, sibling order, payloads) that the first one left.
C32_FlattenIdempotent ==
    cur.kind \in {"flatten_again", "flatten_again_p005"} =>
        (cur.ok /\ cur.tree = cur.before)

\* C33: after flatten the children of the root are exactly the direct
\* children of the old root, each of them is a leaf (fan 0, tail invalid),
\* and the store holds no node besides them, the root and the sentinel.
C33_FlattenChildrenAreLeaves ==
    (cur.kind \in {"flatten", "flatten_p005"} /\ rootCalls = 1) =>
        LET kids == Range(Walk(cur.tree, root)) IN
        /\ kids \subseteq (DOMAIN cur.tree) \ {invalid, root}
        /\ Payloads(cur.tree, kids)
              = Payloads(cur.before, Range(Walk(cur.before, root)))
        /\ Len(Walk(cur.tree, root)) = Len(Walk(cur.before, root))
        /\ \A c \in kids : cur.tree[c].fan = 0 /\ cur.tree[c].tail = invalid
        /\ (DOMAIN cur.tree) \ {invalid, root} = kids
        /\ cur.tree[root].value = cur.before[root].value

(***************************************************************************)
(* The concurrent tree of revision B: rooted_tree_base<Node, true>, whose  *)
(* hook holds the fan in a short.  The 16 bits of the short are scaled to  *)
(* FanBits bits; the arithmetic is the same two's-complement arithmetic.   *)
(***************************************************************************)
\* Number of bits of the hook's fan.
FanBits == 3

\* The largest value of the fan: 32'767 for a short.
fan_max == 2 ^ (FanBits - 1) - 1

\* The conversion of an int to the type of fan.
to_short(x) == ((x + 2 ^ (FanBits - 1)) % (2 ^ FanBits)) - 2 ^ (FanBits - 1)

\* source.fan += 1: the sum is computed as int and converted back.
fan_add(ns, p) == [ns EXCEPT ![p].fan = to_short(@ + 1)]

\* rooted_tree_base<Node, true> tree; tree.insert ( tree.invalid, Node{ } )
\* before the threads start.
InitFan ==
    /\ nodes = insert_impl_seq(push_back(EmptyTree, Foo(1)), invalid, root, root)
    /\ last = NoCall
    /\ rootCalls = 1
    /\ build = [rev |-> "B", order |-> "none", asserts |-> FALSE]
    /\ aborted = FALSE
    /\ pc = [t \in Threads |-> "idle"]
    /\ pid = [t \in Threads |-> 0]
    /\ cid = [t \in Threads |-> 0]
    /\ old = [t \in Threads |-> 0]
    /\ cnt = [t \in Threads |-> 0]
    /\ acq = [n \in 0..(ConSlots - 1) |-> IF n = invalid THEN <<root>> ELSE <<>>]
    /\ ExtIdle

\* insert ( source_, node_ ), concurrent branch, called with a parent drawn
\* from 1 .. nodes.size ( ) - 1:
\*     iterator target = nodes.push_back ( node_ );  id = distance ( begin, target );
\* push_back of tbb::concurrent_vector first takes the next index, which
\* size ( ) counts from then on, in memory the zero_allocator has cleared ...
push_B(t) ==
    /\ pc[t] = "idle"
    /\ cnt[t] < InsertsPerThread
    /\ \E p \in 1..(size(nodes) - 1) : pid' = [pid EXCEPT ![t] = p]
    /\ cid' = [cid EXCEPT ![t] = distance(nodes)]
    /\ nodes' = push_back(nodes, ZeroNode)
    /\ pc' = [pc EXCEPT ![t] = "construct_B"]
    /\ UNCHANGED <<old, cnt, acq, last, rootCalls, build, aborted>>

\* ... and then constructs the element there from node_: every member of
\* the hook is written, tail, fan and the mutex included, and done = 1.
construct_B(t) ==
    /\ pc[t] = "construct_B"
    /\ nodes' = [nodes EXCEPT ![cid[t]] = Foo(cnt[t] + 1)]
    /\ pc' = [pc EXCEPT ![t] = "up_B"]
    /\ UNCHANGED <<pid, cid, old, cnt, acq, last, rootCalls, build, aborted>>

\*     target->up.id = source_.id;
up_B(t) ==
    /\ pc[t] = "up_B"
    /\ nodes' = [nodes EXCEPT ![cid[t]].up = pid[t]]
    /\ pc' = [pc EXCEPT ![t] = "lock_B"]
    /\ UNCHANGED <<pid, cid, old, cnt, acq, last, rootCalls, build, aborted>>

\*     scoped_lock lock ( source.mutex );
lock_B(t) ==
    /\ pc[t] = "lock_B"
    /\ lock_free(nodes, pid[t])
    /\ nodes' = [nodes EXCEPT ![pid[t]].lock = t]
    /\ acq' = [acq EXCEPT ![pid[t]] = Append(@, cid[t])]
    /\ pc' = [pc EXCEPT ![t] = "link_B"]
    /\ UNCHANGED <<pid, cid, old, cnt, last, rootCalls, build, aborted>>

\*     target->prev = std::exchange ( source.tail, id );
link_B(t) ==
    /\ pc[t] = "link_B"
    /\ old' = [old EXCEPT ![t] = nodes[pid[t]].tail]
    /\ nodes' = store_prev(store_tail(nodes, pid[t], cid[t]), cid[t],
                           nodes[pid[t]].tail)
    /\ pc' = [pc EXCEPT ![t] = "fan_B"]
    /\ UNCHANGED <<pid, cid, cnt, acq, last, rootCalls, build, aborted>>

\*     source.fan += 1;   There is no test of the fan before or after.
fan_B(t) ==
    /\ pc[t] = "fan_B"
    /\ nodes' = fan_add(nodes, pid[t])
    /\ pc' = [pc EXCEPT ![t] = "unlock_B"]
    /\ UNCHANGED <<pid, cid, old, cnt, acq, last, rootCalls, build, aborted>>

\* End of the scope of the lock; return id.
unlock_B(t) ==
    /\ pc[t] = "unlock_B"
    /\ nodes' = [nodes EXCEPT ![pid[t]].lock = 0]
    /\ cnt' = [cnt EXCEPT ![t] = @ + 1]
    /\ pc' = [pc EXCEPT ![t] = "idle"]
    /\ pid' = [pid EXCEPT ![t] = 0]
    /\ cid' = [cid EXCEPT ![t] = 0]
    /\ old' = [old EXCEPT ![t] = 0]
    /\ UNCHANGED <<acq, last, rootCalls, build, aborted>>

NextFan ==
    /\ \E t \in Threads :
          \/ push_B(t)
          \/ construct_B(t)
          \/ up_B(t)
          \/ lock_B(t)
          \/ link_B(t)
          \/ fan_B(t)
          \/ unlock_B(t)
    /\ UNCHANGED extVars

SpecFan == InitFan /\ [][NextFan]_vars

\* C34: in the concurrent tree the fan of every node stays in [0, 32768):
\* the insert that brings the fan to its maximum is accepted, no further
\* child is linked under that parent, and the fan never wraps.
C34_FanStaysInRange ==
    \A p \in DOMAIN nodes :
        /\ nodes[p].fan \in 0..fan_max
        /\ Len(acq[p]) <= fan_max

(***************************************************************************)
(* Claims about apply.                                                     *)
(***************************************************************************)
\* The k-th ancestor of n (n itself for k = 0).
RECURSIVE Ancestor(_, _, _)
Ancestor(ns, n, k) == IF k = 0 \/ n = invalid THEN n ELSE Ancestor(ns, ns[n].up, k - 1)

\* Breadth-first order among the nodes below s: a lower level first; on one
\* level, where the two lines of ancestors part, the branch inserted later
\* first.
BreadthBefore(ns, s, a, b) ==
    LET la == Below(ns, s, a, size(ns))
        lb == Below(ns, s, b, size(ns))
    IN  \/ la < lb
        \/ /\ la = lb
           /\ \E k \in 0..size(ns) :
                 /\ Ancestor(ns, a, k + 1) = Ancestor(ns, b, k + 1)
                 /\ Ancestor(ns, a, k) > Ancestor(ns, b, k)

\* C35: apply returns the first node in breadth-first order from the start
\* node, within max_depth levels when max_depth > 0, of which the predicate
\* is true, and invalid when there is no such node.
C35_ApplyReturnsFirstMatch ==
    cur.kind = "apply" =>
        LET hits == {n \in Within(nodes, cur.start, cur.max_depth) :
                        nodes[n].value \in cur.value}
        IN  IF hits = {} THEN cur.ret = invalid
            ELSE /\ cur.ret \in hits
                 /\ \A n \in hits \ {cur.ret} :
                       BreadthBefore(nodes, cur.start, cur.ret, n)

\* apply with a depth bound of two has returned a node of the second level
\* of a tree of three levels although another node of that level satisfies
\* the predicate too.
C35_Witness ==
    /\ cur.kind = "apply"
    /\ rootCalls = 1
    /\ cur.start = root
    /\ cur.max_depth = 2
    /\ cur.ret # invalid
    /\ Below(nodes, root, cur.ret, size(nodes)) = 2
    /\ \E n \in (DOMAIN nodes) \ {cur.ret} :
          nodes[n].value \in cur.value /\ Below(nodes, root, n, size(nodes)) = 2
    /\ \E n \in DOMAIN nodes : Below(nodes, root, n, size(nodes)) = 3

(***************************************************************************)
(* Claims about cursors that have become invalid.                          *)
(***************************************************************************)
\* C36: a cursor (down, up, depth-first, breadth-first, leaf, internal) that
\* is advanced while it is invalid is invalid afterwards; in particular a
\* breadth-first cursor that stopped on its depth bound yields no node again.
C36_InvalidStaysInvalid ==
    (cur.kind \in {"out", "up", "depth", "breadth", "leaf", "internal"}
        /\ cur.past > 0 /\ ~cur.ub) =>
        cur.node = invalid

(***************************************************************************)
(* The concurrent tree of revision C with the first insert under invalid   *)
(* racing with the inserts of children, while one more thread uses the     *)
(* tree-wide lock ( ) / unlock ( ).                                        *)
(***************************************************************************)
\* The thread that calls lock ( ) and unlock ( ).
Locker == 1 + Cardinality(Threads)

\* Number of times the locker takes the tree-wide lock.
LockRounds == 1

\* Number of emplace calls each inserting thread makes.
CallsPerThread == 1

\* An unlock that leaves the flag set.
unlock_never(ns) == ns

\* unlock ( ): nodes[ invalid.id ].lock.unlock ( ).
unlock(ns) == [ns EXCEPT ![invalid].lock = 0]

\* ConcurrentTree tree; : grow_by ( 1 ) makes the sentinel, no root yet.
InitLive ==
    /\ nodes = EmptyTree
    /\ last = NoCall
    /\ rootCalls = 0
    /\ build \in {[rev |-> "C", order |-> "none", asserts |-> a] : a \in BOOLEAN}
    /\ aborted = FALSE
    /\ pc = [t \in Threads \cup {Locker} |-> "idle"]
    /\ pid = [t \in Threads |-> 0]
    /\ cid = [t \in Threads |-> 0]
    /\ old = [t \in Threads |-> 0]
    /\ cnt = [t \in Threads \cup {Locker} |-> 0]
    /\ acq = [n \in 0..(ConSlots - 1) |-> <<>>]
    /\ ExtIdle

\* A thread calls emplace ( invalid, ... ), which one call does, ...
call_root(t) ==
    /\ pc[t] = "idle"
    /\ cnt[t] < CallsPerThread
    /\ rootCalls = 0
    /\ rootCalls' = 1
    /\ pid' = [pid EXCEPT ![t] = invalid]
    /\ pc' = [pc EXCEPT ![t] = "lock_tree"]
    /\ UNCHANGED <<nodes, cid, old, cnt, acq, last, build, aborted>>

\* ... or emplace ( pid_, ... ) with pid_ drawn from the slots the store has
\* at the time of the call, 1 .. nodes.size ( ) - 1, as the producers do: the
\* slot may belong to an insert that has not returned yet.
call_child(t) ==
    /\ pc[t] = "idle"
    /\ cnt[t] < CallsPerThread
    /\ \E p \in 1..(size(nodes) - 1) : pid' = [pid EXCEPT ![t] = p]
    /\ pc' = [pc EXCEPT ![t] = "lock_tree"]
    /\ UNCHANGED <<nodes, cid, old, cnt, acq, last, rootCalls, build, aborted>>

\* lock ( ): nodes[ invalid.id ].lock.lock ( ).
lock ==
    /\ pc[Locker] = "idle"
    /\ cnt[Locker] < LockRounds
    /\ lock_free(nodes, invalid)
    /\ nodes' = [nodes EXCEPT ![invalid].lock = Locker]
    /\ pc' = [pc EXCEPT ![Locker] = "locked"]
    /\ UNCHANGED <<pid, cid, old, cnt, acq, last, rootCalls, build, aborted>>

\* The locker's call of unlock ( ).
unlock_tree_wide ==
    /\ pc[Locker] = "locked"
    /\ nodes' = unlock(nodes)
    /\ pc' = [pc EXCEPT ![Locker] = "idle"]
    /\ cnt' = [cnt EXCEPT ![Locker] = @ + 1]
    /\ UNCHANGED <<pid, cid, old, acq, last, rootCalls, build, aborted>>

\* The steps of one inserting thread.
Insert(t) ==
    \/ call_root(t)
    \/ call_child(t)
    \/ /\ \/ lock_tree(t)
          \/ alloc(t)
          \/ construct(t)
          \/ set_done(t)
          \/ unlock_tree(t)
          \/ set_up(t)
          \/ lock_parent(t)
          \/ exchange_load(t)
          \/ exchange_store(t)
          \/ set_prev(t)
          \/ fan(t)
          \/ unlock_parent(t)

NextLive ==
    /\ \/ \E t \in Threads : Insert(t)
       \/ lock
       \/ unlock_tree_wide
    /\ UNCHANGED extVars

\* Every thread that can take a step is scheduled eventually; the locker
\* need not lock, but unlocks once it has.
SpecLive ==
    /\ InitLive
    /\ [][NextLive]_vars
    /\ \A t \in Threads : WF_vars(Insert(t) /\ UNCHANGED extVars)
    /\ WF_vars(unlock_tree_wide /\ UNCHANGED extVars)

\* The thread t is inside an insert and waits for a lock that is held.
Blocked(t) ==
    \/ pc[t] = "lock_tree" /\ ~lock_free(nodes, invalid)
    \/ pc[t] = "lock_parent" /\ ~lock_free(nodes, lock_of_link(t))

Running == {t \in Threads : pc[t] # "idle"}

\* Some running insert can take a step, or the thread that holds the
\* tree-wide lock can release it.
SomeoneCanMove ==
    Running # {} =>
        \/ \E t \in Running : ~Blocked(t)
        \/ pc[Locker] = "locked"

\* C37: with an insert under invalid racing with inserts of children and
\* with lock ( ) / unlock ( ) used by another thread, no state is reached in
\* which every running insert waits for a lock that nobody will release, and
\* under fair scheduling every started insert returns.
C37_InsertsReturn ==
    /\ []SomeoneCanMove
    /\ \A t \in Threads : (pc[t] # "idle") ~> (pc[t] = "idle")

\* Both inserting threads wait for the sentinel's lock, which the locker
\* holds: the insert under invalid to link its slot, the insert under that
\* slot to append its own.
C37_Witness ==
    /\ pc[Locker] = "locked"
    /\ \E t \in Threads : pid[t] = invalid /\ pc[t] = "lock_parent"
    /\ \E t \in Threads : pid[t] = root /\ pc[t] = "lock_tree"

\* C38: every slot that emplace_back constructs an element into lies entirely
\* inside memory that is committed at that moment, for every element size, in
\* the sequential and in the concurrent vector: no append ends in an access
\* to memory the host has not committed.
C38_SlotInsideCommitted ==
    (vm.variant # "none" /\ vm.last.op = "emplace_back") =>
        vm.last.result # "fault"

\* C39: in every reachable state every non-sentinel node n of the store has
\* up(n) < n, so the walk along up from n arrives at the sentinel within n
\* advances: the up cursor becomes invalid after at most start advances and
\* the up relation has no cycle.
C39_UpLeadsToSentinel ==
    /\ \A n \in (DOMAIN nodes) \ {invalid} : nodes[n].up \in 0..(n - 1)
    /\ cur.kind = "up" =>
          /\ cur.node = invalid \/ cur.node <= cur.start - cur.steps
          /\ cur.steps >= cur.start => cur.node = invalid

C39_Witness ==
    /\ cur.kind = "up"
    /\ cur.start = 3
    /\ cur.seen = <<3, 2, 1>>
    /\ cur.steps = 3
    /\ cur.node = invalid

\* C40: an insert on the concurrent tree writes the tail and the fan of its
\* parent only when the parent's done flag is 1, also when the parent was
\* drawn from 1 .. size - 1 while its construction had not finished, so that
\* once every insert has returned each node is on the child list of its up:
\* no linked child is lost.
C40_ParentConstructedBeforeLinked ==
    /\ [][\A t \in Threads :
              (link_B(t) \/ fan_B(t) \/ exchange_store(t) \/ fan(t)) =>
                  nodes[pid[t]].done = 1]_vars
    /\ []((\A t \in Threads : pc[t] = "idle") =>
              \A n \in (DOMAIN nodes) \ {invalid} :
                  Occurrences(Walk(nodes, nodes[n].up), n) = 1)

====
